---- MODULE Spec2Model ----
(***************************************************************************)
(* Model of the Smart Suggest ranking engine (src/app/lib/ranking.ts) and   *)
(* of the page component that calls it (src/app/page.tsx).                 *)
(*                                                                         *)
(* Strings are sequences of one-character strings.  An optional value      *)
(* (a field or argument that may be undefined) is a sequence of length 0   *)
(* or 1: None is <<>>, Some(x) is <<x>>.  Numbers the code computes as     *)
(* floats are exact rationals <<numerator, denominator>> here, so the      *)
(* model states the arithmetic of the source without IEEE rounding.        *)
(***************************************************************************)
EXTENDS Integers, Sequences, FiniteSets, TLC

VARIABLES query, candidates, hints, weights, limit, now, ranked, top,
          earlier, jwArgs, jwResult,
          defaultWeights, callerWeights, callerResult,
          input, result, loading, batchResults, isBatchMode, scoredCandidates,
          originalDisplayNameQuery, calls, parsing, typed, done

\* Arguments and results of single calls of the ranker
rankerVars == <<query, candidates, hints, weights, limit, now, ranked, top,
                earlier, jwArgs, jwResult>>

\* The module-level DEFAULT_WEIGHTS object and the callers that share it
callerVars == <<defaultWeights, callerWeights, callerResult>>

\* The state of the page component: its useState cells, the handleSubmit
\* invocations that await a response (calls), the CSV parse that has not
\* completed (parsing), and two records of what happened: the last text
\* typed and the last invocation that completed
pageVars == <<input, result, loading, batchResults, isBatchMode, scoredCandidates,
              originalDisplayNameQuery, calls, parsing, typed, done>>

vars == <<rankerVars, callerVars, pageVars>>

-----------------------------------------------------------------------------
(* Optional values *)

None == <<>>

Some(x) == <<x>>

IsSome(o) == Len(o) > 0

Val(o) == o[1]

-----------------------------------------------------------------------------
(* Exact rational arithmetic, standing for the source's number type *)

Min2(a, b) == IF a <= b THEN a ELSE b

Max2(a, b) == IF a >= b THEN a ELSE b

RECURSIVE GCD(_, _)
GCD(a, b) == IF b = 0 THEN a ELSE GCD(b, a % b)

Rat(n, d) == LET g == GCD(n, d) IN <<n \div g, d \div g>>

RAdd(a, b) ==
    LET l == (a[2] \div GCD(a[2], b[2])) * b[2]
    IN  Rat(a[1] * (l \div a[2]) + b[1] * (l \div b[2]), l)

RMul(a, b) ==
    LET g1 == GCD(a[1], b[2])
        g2 == GCD(b[1], a[2])
        h1 == IF g1 = 0 THEN 1 ELSE g1
        h2 == IF g2 = 0 THEN 1 ELSE g2
    IN  Rat((a[1] \div h1) * (b[1] \div h2), (a[2] \div h2) * (b[2] \div h1))

RLeq(a, b) == a[1] * b[2] <= b[1] * a[2]

RMax(a, b) == IF RLeq(a, b) THEN b ELSE a

RMin(a, b) == IF RLeq(a, b) THEN a ELSE b

Zero == <<0, 1>>

One == <<1, 1>>

\* n hundredths: Pct(75) is the literal 0.75
Pct(n) == Rat(n, 100)

-----------------------------------------------------------------------------
(* String primitives of the language runtime *)

\* The letters of the inputs used here: "A", "B" and "Z" have a lower case
Lower(c) ==
    IF c = "A" THEN "a" ELSE IF c = "B" THEN "b" ELSE IF c = "Z" THEN "z" ELSE c

IsSpace(c) == c = " "

toLowerCase(s) == [i \in 1..Len(s) |-> Lower(s[i])]

trim(s) ==
    LET keep == {i \in 1..Len(s) : ~IsSpace(s[i])}
    IN  IF keep = {} THEN <<>>
        ELSE LET lo == CHOOSE i \in keep : \A j \in keep : i <= j
                 hi == CHOOSE i \in keep : \A j \in keep : j <= i
             IN  SubSeq(s, lo, hi)

\* Mutant of startsWith: the empty prefix is no prefix
startsWithNonEmpty(s, p) ==
    /\ Len(p) > 0
    /\ Len(p) <= Len(s)
    /\ SubSeq(s, 1, Len(p)) = p

startsWith(s, p) == Len(p) <= Len(s) /\ SubSeq(s, 1, Len(p)) = p

includes(s, p) ==
    \E k \in 0..(Len(s) - Len(p)) : SubSeq(s, k + 1, k + Len(p)) = p

\* One row of the edit-distance table: prev is the row above, ch the
\* character of this row, cur the cells of this row up to column j - 1
RECURSIVE levRow(_, _, _, _, _)
levRow(prev, ch, b, j, cur) ==
    IF j > Len(b) THEN cur
    ELSE levRow(prev, ch, b, j + 1,
                Append(cur, Min2(Min2(prev[j + 1] + 1, cur[j] + 1),
                                 prev[j] + (IF ch = b[j] THEN 0 ELSE 1))))

RECURSIVE levRows(_, _, _, _)
levRows(a, b, i, prev) ==
    IF i > Len(a) THEN prev[Len(b) + 1]
    ELSE levRows(a, b, i + 1, levRow(prev, a[i], b, 1, <<i>>))

\* fast-levenshtein's get(a, b): the edit distance of a and b
levenshtein(a, b) == levRows(a, b, 1, [j \in 1..(Len(b) + 1) |-> j - 1])

-----------------------------------------------------------------------------
(* ranking.ts *)

normalizeString(str) == trim(toLowerCase(str))

\* Mutant of jwMatch: a match is not marked in longerMatches
RECURSIVE jwMatchShorterOnly(_, _, _, _, _, _)
jwMatchShorterOnly(shorter, longer, matchDistance, i, sm, lm) ==
    IF i > Len(shorter) THEN <<sm, lm>>
    ELSE LET start == Max2(0, (i - 1) - matchDistance)
             end == Min2((i - 1) + matchDistance + 1, Len(longer))
             hit == {j \in (start + 1)..end : j \notin lm /\ shorter[i] = longer[j]}
         IN  IF hit = {} THEN jwMatchShorterOnly(shorter, longer, matchDistance, i + 1, sm, lm)
             ELSE jwMatchShorterOnly(shorter, longer, matchDistance, i + 1,
                                     sm \cup {i}, lm)

\* The matching loop of jaroWinkler from index i (1-based) of shorter on:
\* sm and lm are the indices marked in shorterMatches and longerMatches.
RECURSIVE jwMatch(_, _, _, _, _, _)
jwMatch(shorter, longer, matchDistance, i, sm, lm) ==
    IF i > Len(shorter) THEN <<sm, lm>>
    ELSE LET start == Max2(0, (i - 1) - matchDistance)
             end == Min2((i - 1) + matchDistance + 1, Len(longer))
             hit == {j \in (start + 1)..end : j \notin lm /\ shorter[i] = longer[j]}
         IN  IF hit = {} THEN jwMatch(shorter, longer, matchDistance, i + 1, sm, lm)
             ELSE LET j == CHOOSE x \in hit : \A y \in hit : x <= y
                  IN  jwMatch(shorter, longer, matchDistance, i + 1,
                              sm \cup {i}, lm \cup {j})

\* The transposition walk from index i of shorter with cursor k into longer
\* (both 1-based); t counts the transpositions so far.  The result is
\* <<transpositions, overrun>>: overrun is TRUE when the cursor left longer.
RECURSIVE jwWalk(_, _, _, _, _, _, _)
jwWalk(shorter, longer, sm, lm, i, k, t) ==
    IF i > Len(shorter) THEN <<t, FALSE>>
    ELSE IF i \notin sm THEN jwWalk(shorter, longer, sm, lm, i + 1, k, t)
    ELSE LET rest == {x \in lm : x >= k}
         IN  IF rest = {} THEN <<t, TRUE>>
             ELSE LET k2 == CHOOSE x \in rest : \A y \in rest : x <= y
                  IN  jwWalk(shorter, longer, sm, lm, i + 1, k2 + 1,
                             t + (IF shorter[i] # longer[k2] THEN 1 ELSE 0))

RECURSIVE jwPrefix(_, _, _, _)
jwPrefix(s1, s2, i, n) ==
    IF i > n THEN 0
    ELSE IF s1[i] = s2[i] THEN 1 + jwPrefix(s1, s2, i + 1, n)
    ELSE 0

jaroWinkler(s1, s2) ==
    LET longer == IF Len(s1) > Len(s2) THEN s1 ELSE s2
        shorter == IF Len(s1) > Len(s2) THEN s2 ELSE s1
    IN  IF Len(longer) = 0 THEN One
        ELSE LET matchDistance == (Len(longer) \div 2) - 1
                 m == jwMatch(shorter, longer, matchDistance, 1, {}, {})
                 matches == Cardinality(m[1])
             IN  IF matches = 0 THEN Zero
                 ELSE LET transpositions == jwWalk(shorter, longer, m[1], m[2], 1, 1, 0)[1]
                          s == Len(shorter)
                          l == Len(longer)
                          \* (m/s + m/l + (m - t/2)/m) / 3
                          jaro == Rat(2 * matches * matches * l
                                      + 2 * matches * matches * s
                                      + (2 * matches - transpositions) * s * l,
                                      6 * s * l * matches)
                          prefixLength == jwPrefix(s1, s2, 1, Min2(4, s))
                      IN  \* jaro + prefixLength * 0.1 * (1 - jaro)
                          Rat(10 * jaro[1] + prefixLength * (jaro[2] - jaro[1]),
                              10 * jaro[2])

\* Mutant of fuzzySimilarity: the close-match floor applies to distance 1 only
fuzzySimilarityDistanceOne(normalizedQuery, normalizedUsername, normalizedDisplay) ==
    LET maxSimilarity == RMax(jaroWinkler(normalizedQuery, normalizedDisplay),
                              jaroWinkler(normalizedQuery, normalizedUsername))
        minDistance == Min2(levenshtein(normalizedQuery, normalizedDisplay),
                            levenshtein(normalizedQuery, normalizedUsername))
    IN  IF minDistance <= 1 THEN RMax(maxSimilarity, Pct(75))
        ELSE IF minDistance <= 3 THEN RMax(maxSimilarity, Pct(60))
        ELSE maxSimilarity

\* Mutant of fuzzySimilarity: no floor for distance 3
fuzzySimilarityNoThirdFloor(normalizedQuery, normalizedUsername, normalizedDisplay) ==
    LET maxSimilarity == RMax(jaroWinkler(normalizedQuery, normalizedDisplay),
                              jaroWinkler(normalizedQuery, normalizedUsername))
        minDistance == Min2(levenshtein(normalizedQuery, normalizedDisplay),
                            levenshtein(normalizedQuery, normalizedUsername))
    IN  IF minDistance <= 2 THEN RMax(maxSimilarity, Pct(75))
        ELSE maxSimilarity

\* The fallback of calculateNameSimilarity, taken when no tier matches
fuzzySimilarity(normalizedQuery, normalizedUsername, normalizedDisplay) ==
    LET displaySimilarity == jaroWinkler(normalizedQuery, normalizedDisplay)
        usernameSimilarity == jaroWinkler(normalizedQuery, normalizedUsername)
        maxSimilarity == RMax(displaySimilarity, usernameSimilarity)
        displayDistance == levenshtein(normalizedQuery, normalizedDisplay)
        usernameDistance == levenshtein(normalizedQuery, normalizedUsername)
        minDistance == Min2(displayDistance, usernameDistance)
    IN  IF minDistance <= 2 THEN RMax(maxSimilarity, Pct(75))
        ELSE IF minDistance <= 3 THEN RMax(maxSimilarity, Pct(60))
        ELSE maxSimilarity

\* Mutant of calculateNameSimilarity: the username is compared before the
\* display name
calculateNameSimilarityUsernameFirst(q, candidate) ==
    LET normalizedQuery == normalizeString(q)
        normalizedUsername == normalizeString(candidate.name)
        normalizedDisplay == normalizeString(candidate.displayName)
    IN  IF normalizedUsername = normalizedQuery THEN Pct(95)
        ELSE IF normalizedDisplay = normalizedQuery THEN One
        ELSE IF startsWith(normalizedUsername, normalizedQuery) THEN Pct(80)
        ELSE IF startsWith(normalizedDisplay, normalizedQuery) THEN Pct(85)
        ELSE IF includes(normalizedUsername, normalizedQuery) THEN Pct(65)
        ELSE IF includes(normalizedDisplay, normalizedQuery) THEN Pct(70)
        ELSE fuzzySimilarity(normalizedQuery, normalizedUsername, normalizedDisplay)

\* Mutant of calculateNameSimilarity: the substring tiers come before the
\* prefix tiers
calculateNameSimilarityContainsFirst(q, candidate) ==
    LET normalizedQuery == normalizeString(q)
        normalizedUsername == normalizeString(candidate.name)
        normalizedDisplay == normalizeString(candidate.displayName)
    IN  IF normalizedDisplay = normalizedQuery THEN One
        ELSE IF normalizedUsername = normalizedQuery THEN Pct(95)
        ELSE IF includes(normalizedDisplay, normalizedQuery) THEN Pct(70)
        ELSE IF includes(normalizedUsername, normalizedQuery) THEN Pct(65)
        ELSE IF startsWith(normalizedDisplay, normalizedQuery) THEN Pct(85)
        ELSE IF startsWith(normalizedUsername, normalizedQuery) THEN Pct(80)
        ELSE fuzzySimilarity(normalizedQuery, normalizedUsername, normalizedDisplay)

calculateNameSimilarity(q, candidate) ==
    LET normalizedQuery == normalizeString(q)
        normalizedUsername == normalizeString(candidate.name)
        normalizedDisplay == normalizeString(candidate.displayName)
    IN  IF normalizedDisplay = normalizedQuery THEN One
        ELSE IF normalizedUsername = normalizedQuery THEN Pct(95)
        ELSE IF startsWith(normalizedDisplay, normalizedQuery) THEN Pct(85)
        ELSE IF startsWith(normalizedUsername, normalizedQuery) THEN Pct(80)
        ELSE IF includes(normalizedDisplay, normalizedQuery) THEN Pct(70)
        ELSE IF includes(normalizedUsername, normalizedQuery) THEN Pct(65)
        ELSE fuzzySimilarity(normalizedQuery, normalizedUsername, normalizedDisplay)


\* JavaScript truthiness of an optional string: neither undefined nor ""
Truthy(o) == IsSome(o) /\ Len(Val(o)) > 0

\* Mutant of calculateAccountSignals: an account without a creation date gets
\* nothing for its age
calculateAccountSignalsNoDefault(candidate, clock) ==
    LET verified == IF candidate.hasVerifiedBadge THEN 40 ELSE 0
        age == IF ~IsSome(candidate.created) \/ Val(candidate.created).kind = "empty"
               THEN 0
               ELSE IF Val(candidate.created).kind = "invalid" THEN 0
               ELSE LET ageInDays == clock - Val(candidate.created).day
                    IN  IF ageInDays > 365 * 3 THEN 30
                        ELSE IF ageInDays > 365 THEN 20
                        ELSE IF ageInDays > 90 THEN 10
                        ELSE 0
        bio == IF Truthy(candidate.description) /\ Len(Val(candidate.description)) > 10
               THEN 30
               ELSE IF Truthy(candidate.description) THEN 15
               ELSE 0
    IN  RMin(Pct(verified + age + bio), One)

\* new Date(candidate.created), in days; a string that is no date gives NaN,
\* for which every comparison of the age is false
calculateAccountSignals(candidate, clock) ==
    LET verified == IF candidate.hasVerifiedBadge THEN 40 ELSE 0
        age == IF ~IsSome(candidate.created) \/ Val(candidate.created).kind = "empty"
               THEN 15
               ELSE IF Val(candidate.created).kind = "invalid" THEN 0
               ELSE LET ageInDays == clock - Val(candidate.created).day
                    IN  IF ageInDays > 365 * 3 THEN 30
                        ELSE IF ageInDays > 365 THEN 20
                        ELSE IF ageInDays > 90 THEN 10
                        ELSE 0
        bio == IF Truthy(candidate.description) /\ Len(Val(candidate.description)) > 10
               THEN 30
               ELSE IF Truthy(candidate.description) THEN 15
               ELSE 0
    IN  RMin(Pct(verified + age + bio), One)

\* hints?.keywords is truthy: hints is given and carries a keywords array
HasKeywords(h) == IsSome(h) /\ IsSome(Val(h).keywords)

\* Mutant of calculateKeywordHits: the hits are not divided by the number of
\* keywords
calculateKeywordHitsCount(candidate, h) ==
    IF ~HasKeywords(h) \/ Len(Val(Val(h).keywords)) = 0 THEN Pct(50)
    ELSE IF ~Truthy(candidate.description) THEN Zero
    ELSE LET keywords == Val(Val(h).keywords)
             normalizedBio == normalizeString(Val(candidate.description))
         IN  <<Cardinality({i \in 1..Len(keywords) :
                              includes(normalizedBio, normalizeString(keywords[i]))}), 1>>

\* Mutant of calculateKeywordHits: the bio is searched as written
calculateKeywordHitsCaseSensitive(candidate, h) ==
    IF ~HasKeywords(h) \/ Len(Val(Val(h).keywords)) = 0 THEN Pct(50)
    ELSE IF ~Truthy(candidate.description) THEN Zero
    ELSE LET keywords == Val(Val(h).keywords)
             hits == Cardinality({i \in 1..Len(keywords) :
                                    includes(Val(candidate.description),
                                             normalizeString(keywords[i]))})
         IN  RMin(Rat(hits, Len(keywords)), One)

calculateKeywordHits(candidate, h) ==
    IF ~HasKeywords(h) \/ Len(Val(Val(h).keywords)) = 0 THEN Pct(50)
    ELSE IF ~Truthy(candidate.description) THEN Zero
    ELSE LET keywords == Val(Val(h).keywords)
             normalizedBio == normalizeString(Val(candidate.description))
             hits == Cardinality({i \in 1..Len(keywords) :
                                    includes(normalizedBio, normalizeString(keywords[i]))})
         IN  RMin(Rat(hits, Len(keywords)), One)

\* Mutant of calculateGroupOverlap: supplied group ids count as a full overlap
calculateGroupOverlapMatched(h) ==
    IF ~(IsSome(h) /\ IsSome(Val(h).groupIds)) \/ Len(Val(Val(h).groupIds)) = 0
    THEN Pct(50)
    ELSE One

calculateGroupOverlap(h) ==
    IF ~(IsSome(h) /\ IsSome(Val(h).groupIds)) \/ Len(Val(Val(h).groupIds)) = 0
    THEN Pct(50)
    ELSE Pct(50)

\* Mutant of calculateProfileCompleteness: the names are compared after
\* normalizeString
calculateProfileCompletenessNormalized(candidate) ==
    LET display == IF Len(candidate.displayName) > 0
                      /\ normalizeString(candidate.displayName)
                            # normalizeString(candidate.name)
                   THEN 30 ELSE 0
        bio == IF ~Truthy(candidate.description) THEN 0
               ELSE IF Len(Val(candidate.description)) > 50 THEN 40
               ELSE IF Len(Val(candidate.description)) > 10 THEN 30
               ELSE 10
        verified == IF candidate.hasVerifiedBadge THEN 30 ELSE 0
    IN  RMin(Pct(display + bio + verified), One)

calculateProfileCompleteness(candidate) ==
    LET display == IF Len(candidate.displayName) > 0
                      /\ candidate.displayName # candidate.name
                   THEN 30 ELSE 0
        bio == IF ~Truthy(candidate.description) THEN 0
               ELSE IF Len(Val(candidate.description)) > 50 THEN 40
               ELSE IF Len(Val(candidate.description)) > 10 THEN 30
               ELSE 10
        verified == IF candidate.hasVerifiedBadge THEN 30 ELSE 0
    IN  RMin(Pct(display + bio + verified), One)

\* Weights are rationals, like every number of the source
DEFAULT_WEIGHTS ==
    [nameSimilarity |-> Pct(40), accountSignals |-> Pct(25), keywordHits |-> Pct(15),
     groupOverlap |-> Pct(10), profileCompleteness |-> Pct(10)]

\* Math.round of a non-negative rational: the nearest integer, halves upwards
MathRound(r) == (2 * r[1] + r[2]) \div (2 * r[2])

\* Mutant of weightedSum: the group-overlap term is added without its weight
weightedSumGroupUnweighted(signals, w) ==
    RAdd(RAdd(RAdd(RAdd(RMul(signals.nameSimilarity, w.nameSimilarity),
                        RMul(signals.accountSignals, w.accountSignals)),
                   RMul(signals.keywordHits, w.keywordHits)),
              signals.groupOverlap),
         RMul(signals.profileCompleteness, w.profileCompleteness))

\* The sum inside Math.round, before the factor 100
weightedSum(signals, w) ==
    RAdd(RAdd(RAdd(RAdd(RMul(signals.nameSimilarity, w.nameSimilarity),
                        RMul(signals.accountSignals, w.accountSignals)),
                   RMul(signals.keywordHits, w.keywordHits)),
              RMul(signals.groupOverlap, w.groupOverlap)),
         RMul(signals.profileCompleteness, w.profileCompleteness))

\* Mutant of nameTag: "Exact name match" from 0.85
nameTagExactFrom85(signals) ==
    IF RLeq(Pct(85), signals.nameSimilarity) THEN <<"Exact name match">>
    ELSE IF RLeq(Pct(80), signals.nameSimilarity) THEN <<"Strong name similarity">>
    ELSE IF RLeq(Pct(60), signals.nameSimilarity) THEN <<"Moderate name similarity">>
    ELSE <<>>

nameTag(signals) ==
    IF RLeq(Pct(90), signals.nameSimilarity) THEN <<"Exact name match">>
    ELSE IF RLeq(Pct(80), signals.nameSimilarity) THEN <<"Strong name similarity">>
    ELSE IF RLeq(Pct(60), signals.nameSimilarity) THEN <<"Moderate name similarity">>
    ELSE <<>>

\* Mutant of makeBreakdown: the badge is pushed before the name tag
makeBreakdownBadgeFirst(candidate, signals, h) ==
    (IF candidate.hasVerifiedBadge THEN <<"Verified badge">> ELSE <<>>)
    \o nameTag(signals)
    \o (IF RLeq(Pct(70), signals.accountSignals) THEN <<"Established account">> ELSE <<>>)
    \o (IF RLeq(Pct(70), signals.profileCompleteness) THEN <<"Complete profile">> ELSE <<>>)
    \o (IF RLeq(Pct(50), signals.keywordHits) /\ HasKeywords(h)
        THEN <<"Keyword matches">> ELSE <<>>)

makeBreakdown(candidate, signals, h) ==
    nameTag(signals)
    \o (IF candidate.hasVerifiedBadge THEN <<"Verified badge">> ELSE <<>>)
    \o (IF RLeq(Pct(70), signals.accountSignals) THEN <<"Established account">> ELSE <<>>)
    \o (IF RLeq(Pct(70), signals.profileCompleteness) THEN <<"Complete profile">> ELSE <<>>)
    \o (IF RLeq(Pct(50), signals.keywordHits) /\ HasKeywords(h)
        THEN <<"Keyword matches">> ELSE <<>>)

\* Mutant of scoreCandidate: the names of the record are normalized in place
scoreCandidateNormalizedUser(q, candidate, h, w, clock) ==
    LET signals == [nameSimilarity |-> calculateNameSimilarity(q, candidate),
                    accountSignals |-> calculateAccountSignals(candidate, clock),
                    keywordHits |-> calculateKeywordHits(candidate, h),
                    groupOverlap |-> calculateGroupOverlap(h),
                    profileCompleteness |-> calculateProfileCompleteness(candidate)]
    IN  [user |-> [candidate EXCEPT !.name = normalizeString(@),
                                    !.displayName = normalizeString(@)],
         confidence |-> MathRound(RMul(weightedSum(signals, w), <<100, 1>>)),
         signals |-> signals,
         breakdown |-> makeBreakdown(candidate, signals, h)]

\* The callback of candidates.map
scoreCandidate(q, candidate, h, w, clock) ==
    LET signals == [nameSimilarity |-> calculateNameSimilarity(q, candidate),
                    accountSignals |-> calculateAccountSignals(candidate, clock),
                    keywordHits |-> calculateKeywordHits(candidate, h),
                    groupOverlap |-> calculateGroupOverlap(h),
                    profileCompleteness |-> calculateProfileCompleteness(candidate)]
    IN  [user |-> candidate,
         confidence |-> MathRound(RMul(weightedSum(signals, w), <<100, 1>>)),
         signals |-> signals,
         breakdown |-> makeBreakdown(candidate, signals, h)]

\* Mutant of insertSorted: ascending order
RECURSIVE insertSortedAscending(_, _)
insertSortedAscending(s, x) ==
    IF Len(s) = 0 THEN <<x>>
    ELSE IF s[1].confidence - x.confidence > 0
         THEN <<x>> \o s
         ELSE <<s[1]>> \o insertSortedAscending(Tail(s), x)

\* Mutant of insertSorted: an element goes before its equals, as in an
\* unstable sort
RECURSIVE insertSortedBeforeEquals(_, _)
insertSortedBeforeEquals(s, x) ==
    IF Len(s) = 0 THEN <<x>>
    ELSE IF x.confidence - s[1].confidence >= 0
         THEN <<x>> \o s
         ELSE <<s[1]>> \o insertSortedBeforeEquals(Tail(s), x)

\* Insert x into the sorted sequence s behind every element that does not
\* compare after it, comparing with (a, b) => b.confidence - a.confidence
RECURSIVE insertSorted(_, _)
insertSorted(s, x) ==
    IF Len(s) = 0 THEN <<x>>
    ELSE IF x.confidence - s[1].confidence > 0
         THEN <<x>> \o s
         ELSE <<s[1]>> \o insertSorted(Tail(s), x)

\* Array.prototype.sort with that comparator: a stable sort (ECMAScript 2019)
RECURSIVE sortByConfidence(_)
sortByConfidence(s) ==
    IF Len(s) = 0 THEN <<>>
    ELSE insertSorted(sortByConfidence(SubSeq(s, 1, Len(s) - 1)), s[Len(s)])

\* candidates.map(callback): the scored candidates in the order of cs
RECURSIVE mapScore(_, _, _, _, _)
mapScore(q, cs, h, w, clock) ==
    IF Len(cs) = 0 THEN <<>>
    ELSE <<scoreCandidate(q, cs[1], h, w, clock)>> \o mapScore(q, Tail(cs), h, w, clock)

\* Mutant of rankCandidates: candidates scoring under 50 are filtered out
rankCandidatesDropsLow(q, cs, h, w, clock) ==
    LET wv == IF IsSome(w) THEN Val(w) ELSE DEFAULT_WEIGHTS
        scored == mapScore(q, cs, h, wv, clock)
    IN  sortByConfidence(SelectSeq(scored, LAMBDA e : e.confidence >= 50))

\* Mutant of rankCandidates: the weights argument is ignored
rankCandidatesDefaultOnly(q, cs, h, w, clock) ==
    sortByConfidence(mapScore(q, cs, h, DEFAULT_WEIGHTS, clock))

\* Mutant of rankCandidates: an empty list is answered with a row made of the
\* query
rankCandidatesPlaceholder(q, cs, h, w, clock) ==
    LET wv == IF IsSome(w) THEN Val(w) ELSE DEFAULT_WEIGHTS
        placeholder == [id |-> 0, name |-> q, displayName |-> q,
                        hasVerifiedBadge |-> FALSE, created |-> None,
                        description |-> None]
        scored == mapScore(q, IF Len(cs) = 0 THEN <<placeholder>> ELSE cs, h, wv, clock)
    IN  sortByConfidence(scored)

\* w is the optional weights argument; undefined takes the default parameter
rankCandidates(q, cs, h, w, clock) ==
    LET wv == IF IsSome(w) THEN Val(w) ELSE DEFAULT_WEIGHTS
        scored == mapScore(q, cs, h, wv, clock)
    IN  sortByConfidence(scored)

\* Mutant of rankCandidatesShared: an override is stored as the new default
rankCandidatesSharedKeepsOverride(q, cs, h, w, clock, defaults) ==
    LET wv == IF IsSome(w) THEN Val(w) ELSE defaults
    IN  [result |-> sortByConfidence(mapScore(q, cs, h, wv, clock)),
         defaults |-> wv]

\* rankCandidates with the module-level object its default parameter reads:
\* defaults is the value of DEFAULT_WEIGHTS at the call, the second field of
\* the result its value after the call (the code never assigns to it)
rankCandidatesShared(q, cs, h, w, clock, defaults) ==
    LET wv == IF IsSome(w) THEN Val(w) ELSE defaults
    IN  [result |-> sortByConfidence(mapScore(q, cs, h, wv, clock)),
         defaults |-> defaults]

\* Array.prototype.slice(0, end)
slice0(s, end) ==
    LET e == IF end < 0 THEN Max2(Len(s) + end, 0) ELSE Min2(end, Len(s))
    IN  SubSeq(s, 1, e)

\* Mutant of getTopSuggestions: the default limit is 10, the value the page
\* passes
getTopSuggestionsDefaultTen(q, cs, lim, h, w, clock) ==
    LET rankedList == rankCandidates(q, cs, h, w, clock)
    IN  slice0(rankedList, IF IsSome(lim) THEN Val(lim) ELSE 10)

\* lim is the optional limit argument; undefined takes the default 5
getTopSuggestions(q, cs, lim, h, w, clock) ==
    LET rankedList == rankCandidates(q, cs, h, w, clock)
    IN  slice0(rankedList, IF IsSome(lim) THEN Val(lim) ELSE 5)

-----------------------------------------------------------------------------
(* The callers' inputs *)

MaxQueryLen == 2

MaxNameLen == 2

MaxCands == 6

MaxLimit == 2

\* Queries and names are typed in opposite case, so that only case folding
\* makes them meet
QueryAlphabet == {"A", "b", " "}

NameAlphabet == {"a", "B", " "}

Strings(alphabet, n) == UNION {[1..k -> alphabet] : k \in 0..n}

RECURSIVE Repeat(_, _)
Repeat(c, n) == IF n = 0 THEN <<>> ELSE <<c>> \o Repeat(c, n - 1)

Candidate(id, name, displayName, verified, created, description) ==
    [id |-> id, name |-> name, displayName |-> displayName,
     hasVerifiedBadge |-> verified, created |-> created, description |-> description]

\* created: absent, "", a string that is no date, or the date of day 0
CreatedEmpty == Some([kind |-> "empty"])

CreatedInvalid == Some([kind |-> "invalid"])

CreatedAt(day) == Some([kind |-> "date", day |-> day])

CreatedValues == {None, CreatedEmpty, CreatedInvalid, CreatedAt(0)}

NowValues == {90, 91, 1096}

\* Bios of length 5, 11 and 51; the longer two hold the keywords "ab" and "zz"
BioShort == <<"h", "e", "l", "l", "o">>

BioMedium == <<"A", "B", " ">> \o Repeat("x", 8)

BioLong == <<"a", "b", " ", "Z", "z", " ">> \o Repeat("x", 45)

Descriptions == {None, Some(<<>>), Some(BioShort), Some(BioMedium), Some(BioLong)}

Hints(keywords, groupIds) == Some([keywords |-> keywords, groupIds |-> groupIds])

HintValues ==
    {None,
     Hints(None, None),
     Hints(Some(<<>>), Some(<<>>)),
     Hints(Some(<< <<"a", "b">> >>), None),
     Hints(Some(<< <<"A", "b">>, <<" ", "z", "z">> >>), Some(<< <<"1">> >>))}

Weights(n, a, k, g, c) ==
    [nameSimilarity |-> n, accountSignals |-> a, keywordHits |-> k,
     groupOverlap |-> g, profileCompleteness |-> c]

\* Caller-supplied weight vectors: one summing to more than 1, one tiny
WeightsHeavy == Weights(One, Rat(1, 2), Rat(1, 4), Zero, Rat(3, 4))

WeightsTiny == Weights(Rat(1, 200), Zero, Zero, Zero, Zero)

WeightValues == {None, Some(WeightsHeavy), Some(WeightsTiny)}

LimitValues == {None} \cup {Some(k) : k \in 0..MaxLimit}

\* Three records of the lookup service; the first two differ in id alone
Pool ==
    {Candidate(1, <<"a", "b">>, <<"a", "b">>, FALSE, None, None),
     Candidate(2, <<"a", "b">>, <<"a", "b">>, FALSE, None, None),
     Candidate(3, <<"b">>, <<"B", "a">>, TRUE, CreatedAt(0), Some(BioMedium))}

Lists(n) == UNION {[1..k -> Pool] : k \in 0..n}

Idle == ranked = None /\ top = None

\* No earlier result kept for comparison, no direct call of jaroWinkler
NoProbe == earlier = None /\ jwArgs = <<None, None>> /\ jwResult = None

\* No caller shares the defaults
NoCallers ==
    /\ defaultWeights = DEFAULT_WEIGHTS
    /\ callerWeights = <<>>
    /\ callerResult = <<>>

\* The initial values of the useState cells (lines 71-83), nothing in flight
PageLoaded ==
    /\ input = <<>>
    /\ result = "null"
    /\ loading = FALSE
    /\ batchResults = <<>>
    /\ isBatchMode = FALSE
    /\ scoredCandidates = <<>>
    /\ originalDisplayNameQuery = <<>>
    /\ calls = <<>>
    /\ parsing = None
    /\ typed = <<>>
    /\ done = None

Init ==
    /\ query = <<"b">>
    /\ candidates \in Lists(MaxCands)
    /\ hints = None
    /\ weights = None
    /\ limit \in LimitValues
    /\ now = 1096
    /\ Idle
    /\ NoProbe
    /\ NoCallers
    /\ PageLoaded

NamePairs ==
    {<<"a", "b">>, <<"b">>, <<"A">>} \X {<<"a", "b">>, <<"b", "a">>, <<" ", "B">>, <<>>}

\* One candidate, every combination of its fields
InitScore ==
    /\ query \in {<<"a", "b">>, <<"B", " ">>}
    /\ \E p \in NamePairs, v \in BOOLEAN, cr \in CreatedValues, de \in Descriptions :
          candidates = <<Candidate(1, p[1], p[2], v, cr, de)>>
    /\ hints \in HintValues
    /\ weights \in WeightValues
    /\ limit = None
    /\ now \in NowValues
    /\ Idle
    /\ NoProbe
    /\ NoCallers
    /\ PageLoaded

\* Three longer queries, at edit distance 3 and more from short names
LongQueries == {<<"A", "A", "A">>, <<"b", "A", "b">>, <<"A", " ", "b">>}

\* One candidate, every query and every pair of names up to the bounds
InitSim ==
    /\ query \in Strings(QueryAlphabet, MaxQueryLen) \cup LongQueries
    /\ \E n \in Strings(NameAlphabet, MaxNameLen), d \in Strings(NameAlphabet, MaxNameLen) :
          candidates = <<Candidate(1, n, d, FALSE, None, None)>>
    /\ hints = None
    /\ weights = None
    /\ limit = None
    /\ now = 1096
    /\ Idle
    /\ NoProbe
    /\ NoCallers
    /\ PageLoaded

RankCandidates ==
    /\ Idle
    /\ ranked' = Some(rankCandidates(query, candidates, hints, weights, now))
    /\ UNCHANGED <<query, candidates, hints, weights, limit, now, top,
                   earlier, jwArgs, jwResult>>
    /\ UNCHANGED <<callerVars, pageVars>>

GetTopSuggestions ==
    /\ Idle
    /\ top' = Some(getTopSuggestions(query, candidates, limit, hints, weights, now))
    /\ UNCHANGED <<query, candidates, hints, weights, limit, now, ranked,
                   earlier, jwArgs, jwResult>>
    /\ UNCHANGED <<callerVars, pageVars>>

Next == RankCandidates \/ GetTopSuggestions

Spec == Init /\ [][Next]_vars

SpecScore == InitScore /\ [][Next]_vars

SpecSim == InitSim /\ [][Next]_vars

\* The ranker on an empty candidate list, every other argument varied
InitEmpty ==
    /\ query \in Strings(QueryAlphabet, MaxQueryLen) \cup LongQueries
    /\ candidates = <<>>
    /\ hints \in HintValues
    /\ weights \in WeightValues
    /\ limit \in LimitValues
    /\ now \in NowValues
    /\ Idle
    /\ NoProbe
    /\ NoCallers
    /\ PageLoaded

SpecEmpty == InitEmpty /\ [][Next]_vars

\* The clock new Date() reads, in whole days since the creation day 0 of the
\* dated pool record
ClockStart == 89
ClockEnd == 92

\* Short candidate lists, the clock about to cross the 90-day mark
InitTime ==
    /\ query = <<"b">>
    /\ candidates \in Lists(MaxLimit)
    /\ hints = None
    /\ weights = None
    /\ limit = None
    /\ now = ClockStart
    /\ Idle
    /\ NoProbe
    /\ NoCallers
    /\ PageLoaded

\* A day passes
Tick ==
    /\ now < ClockEnd
    /\ now' = now + 1
    /\ UNCHANGED <<query, candidates, hints, weights, limit, ranked, top,
                   earlier, jwArgs, jwResult>>
    /\ UNCHANGED <<callerVars, pageVars>>

\* A second call with the arguments of the first, whose result is kept
RankCandidatesAgain ==
    /\ IsSome(ranked)
    /\ earlier = None
    /\ earlier' = ranked
    /\ ranked' = Some(rankCandidates(query, candidates, hints, weights, now))
    /\ UNCHANGED <<query, candidates, hints, weights, limit, now, top,
                   jwArgs, jwResult>>
    /\ UNCHANGED <<callerVars, pageVars>>

NextTime == Tick \/ RankCandidates \/ RankCandidatesAgain

SpecTime == InitTime /\ [][NextTime]_vars

MaxJWLen == 4

JWAlphabet == {"a", "b"}

\* jaroWinkler on its own, every pair of strings up to MaxJWLen
InitJW ==
    /\ query = <<>>
    /\ candidates = <<>>
    /\ hints = None
    /\ weights = None
    /\ limit = None
    /\ now = 1096
    /\ Idle
    /\ earlier = None
    /\ jwArgs \in Strings(JWAlphabet, MaxJWLen) \X Strings(JWAlphabet, MaxJWLen)
    /\ jwResult = None
    /\ NoCallers
    /\ PageLoaded

JaroWinkler ==
    /\ jwResult = None
    /\ jwResult' = Some(jaroWinkler(jwArgs[1], jwArgs[2]))
    /\ UNCHANGED <<query, candidates, hints, weights, limit, now, ranked, top,
                   earlier, jwArgs>>
    /\ UNCHANGED <<callerVars, pageVars>>

NextJW == JaroWinkler

SpecJW == InitJW /\ [][NextJW]_vars

\* Callers of one process; each has its own weights argument, all read the
\* same DEFAULT_WEIGHTS
Callers == {"c1", "c2", "c3"}

InitCallers ==
    /\ query = <<"b">>
    /\ candidates \in Lists(MaxLimit)
    /\ hints = None
    /\ weights = None
    /\ limit = None
    /\ now = 1096
    /\ Idle
    /\ NoProbe
    /\ defaultWeights = DEFAULT_WEIGHTS
    /\ callerWeights \in [Callers -> WeightValues]
    /\ callerResult = [c \in Callers |-> None]
    /\ PageLoaded

\* Caller c calls rankCandidates; calls are synchronous, so they interleave
\* as whole calls, in any order and any number of times
CallerRanks(c) ==
    LET out == rankCandidatesShared(query, candidates, hints, callerWeights[c], now,
                                    defaultWeights)
    IN  /\ callerResult' = [callerResult EXCEPT ![c] = Some(out.result)]
        /\ defaultWeights' = out.defaults
        /\ UNCHANGED <<rankerVars, callerWeights, pageVars>>

NextCallers == \E c \in Callers : CallerRanks(c)

SpecCallers == InitCallers /\ [][NextCallers]_vars

-----------------------------------------------------------------------------
(* The page component, src/app/page.tsx.  Forensic mode stays off, its     *)
(* initial value; includeBanned only changes a request body.  The server   *)
(* is free in what it answers.  A handler created by a render sees the     *)
(* state cells as that render saw them; the handlers of form and buttons   *)
(* are those of the latest render.                                         *)

Digits == {"0", "1", "2", "3", "4", "5", "6", "7", "8", "9"}

WordChars ==
    Digits \cup {"_"}
    \cup {"a", "b", "c", "d", "e", "f", "g", "h", "i", "j", "k", "l", "m",
          "n", "o", "p", "q", "r", "s", "t", "u", "v", "w", "x", "y", "z"}
    \cup {"A", "B", "C", "D", "E", "F", "G", "H", "I", "J", "K", "L", "M",
          "N", "O", "P", "Q", "R", "S", "T", "U", "V", "W", "X", "Y", "Z"}

UrlHead ==
    <<"r", "o", "b", "l", "o", "x", ".", "c", "o", "m", "/", "u", "s", "e", "r", "s", "/">>

UrlTail == <<"/", "p", "r", "o", "f", "i", "l", "e">>

\* Length of the run of digits of s that starts at index from
DigitRun(s, from) ==
    LET stops == {j \in from..Len(s) : s[j] \notin Digits}
    IN  IF stops = {} THEN Max2(0, Len(s) - from + 1)
        ELSE (CHOOSE j \in stops : \A x \in stops : j <= x) - from

\* /roblox\.com\/users\/(\d+)\/profile/i tried at index p: the digits, if any
urlMatchAt(s, p) ==
    LET low == toLowerCase(s)
        from == p + Len(UrlHead)
        n == DigitRun(s, from)
    IN  IF /\ startsWith(SubSeq(low, p, Len(s)), UrlHead)
           /\ n > 0
           /\ startsWith(SubSeq(low, from + n, Len(s)), UrlTail)
        THEN Some(SubSeq(s, from, from + n - 1))
        ELSE None

urlMatch(s) ==
    LET ps == {p \in 1..Len(s) : IsSome(urlMatchAt(s, p))}
    IN  IF ps = {} THEN None
        ELSE urlMatchAt(s, CHOOSE p \in ps : \A x \in ps : p <= x)

\* /^@?([a-zA-Z0-9_]+)$/: the captured name, if any
usernameMatch(s) ==
    LET body == IF Len(s) > 0 /\ s[1] = "@" THEN Tail(s) ELSE s
    IN  IF Len(body) > 0 /\ \A i \in 1..Len(body) : body[i] \in WordChars
        THEN Some(body)
        ELSE None

normalizeInput(rawInput) ==
    LET trimmed == trim(rawInput)
    IN  IF Len(trimmed) = 0 THEN [type |-> "invalid", value |-> <<>>, userId |-> None]
        ELSE IF IsSome(urlMatch(trimmed))
             THEN [type |-> "url", value |-> trimmed, userId |-> urlMatch(trimmed)]
        ELSE IF \A i \in 1..Len(trimmed) : trimmed[i] \in Digits
             THEN [type |-> "userId", value |-> trimmed, userId |-> None]
        ELSE IF IsSome(usernameMatch(trimmed))
             THEN [type |-> "username", value |-> Val(usernameMatch(trimmed)),
                   userId |-> None]
        ELSE [type |-> "displayName", value |-> trimmed, userId |-> None]

\* A BatchOutput; details, a text made of the other fields, is left out
Output(singleInput, status, suggestions, avatar) ==
    [input |-> singleInput, status |-> status, suggestions |-> suggestions,
     avatar |-> avatar]

\* The state cells as one record
Page ==
    [input |-> input, result |-> result, loading |-> loading,
     batchResults |-> batchResults, isBatchMode |-> isBatchMode,
     scoredCandidates |-> scoredCandidates,
     originalDisplayNameQuery |-> originalDisplayNameQuery]

\* The setters' values become the state
Commit(p) ==
    /\ input' = p.input
    /\ result' = p.result
    /\ loading' = p.loading
    /\ batchResults' = p.batchResults
    /\ isBatchMode' = p.isBatchMode
    /\ scoredCandidates' = p.scoredCandidates
    /\ originalDisplayNameQuery' = p.originalDisplayNameQuery

\* What handleSubmit reads of the render that created it
Closure == [loading |-> loading, input |-> input, isBatchMode |-> isBatchMode]

\* Lines 103-111: everything is cleared, the mode follows batchInputs
submitStart(p, batchInputs) ==
    [p EXCEPT !.loading = TRUE,
              !.result = "null",
              !.batchResults = <<>>,
              !.scoredCandidates = <<>>,
              !.originalDisplayNameQuery = <<>>,
              !.isBatchMode = Len(batchInputs) > 0]

\* The for loop from input i on, up to the next input that needs a request:
\* invalid inputs are answered on the spot
RECURSIVE runLoop(_, _, _)
runLoop(inputs, i, outputs) ==
    IF i > Len(inputs) THEN [i |-> i, outputs |-> outputs]
    ELSE IF normalizeInput(inputs[i]).type = "invalid"
         THEN runLoop(inputs, i + 1, Append(outputs, Output(inputs[i], "Invalid", None, None)))
         ELSE [i |-> i, outputs |-> outputs]

\* The first request for an input: the exact lookup or the search
firstRequest(singleInput) ==
    IF normalizeInput(singleInput).type \in {"username", "userId", "url"}
    THEN "lookup" ELSE "search"

\* Lines 234-284, after the loop: isBatchMode is the value of the closure
afterLoop(p, closure, outputs) ==
    LET p1 == [p EXCEPT !.batchResults = outputs]
        p2 == IF ~closure.isBatchMode /\ Len(outputs) = 1
              THEN [p1 EXCEPT
                       !.input = <<>>,
                       !.result =
                           IF outputs[1].status = "Verified" THEN "Verified"
                           ELSE IF /\ outputs[1].status = "Not Found"
                                   /\ \/ ~IsSome(outputs[1].suggestions)
                                      \/ Len(Val(outputs[1].suggestions)) = 0
                                THEN "Not Found"
                                ELSE @]
              ELSE p1
    IN  [p2 EXCEPT !.loading = FALSE]

\* What is kept of an invocation that has completed
Summary(call, outputs) ==
    [kind |-> call.kind, fresh |-> call.fresh, typed |-> call.typed, outputs |-> outputs]

\* handleSubmit from its first line to its first await, or to its end when
\* no input needs a request.  kind and from tell who called and for which
\* typed text; they have no part in what the handler does.
HandleSubmit(kind, from, batchInputs, closure) ==
    IF closure.loading
    THEN UNCHANGED <<input, result, loading, batchResults, isBatchMode,
                     scoredCandidates, originalDisplayNameQuery, calls, done>>
    ELSE LET inputs == IF Len(batchInputs) > 0 THEN batchInputs ELSE <<closure.input>>
             l == runLoop(inputs, 1, <<>>)
             p == submitStart(Page, batchInputs)
             call == [kind |-> kind, fresh |-> Len(batchInputs) = 0, typed |-> from,
                      closure |-> closure, inputs |-> inputs, i |-> l.i,
                      outputs |-> l.outputs,
                      awaiting |-> IF l.i > Len(inputs) THEN "nothing"
                                   ELSE firstRequest(inputs[l.i])]
         IN  IF l.i > Len(inputs)
             THEN /\ Commit(afterLoop(p, closure, l.outputs))
                  /\ calls' = calls
                  /\ done' = Some(Summary(call, l.outputs))
             ELSE /\ Commit(p)
                  /\ calls' = Append(calls, call)
                  /\ done' = None

RemoveAt(s, k) == SubSeq(s, 1, k - 1) \o SubSeq(s, k + 1, Len(s))

\* Invocation k goes on after the input it was waiting for has its output:
\* to the next request, or through the end of handleSubmit
Continue(k, p, outputs) ==
    LET call == calls[k]
        l == runLoop(call.inputs, call.i + 1, outputs)
    IN  IF l.i > Len(call.inputs)
        THEN /\ Commit(afterLoop(p, call.closure, l.outputs))
             /\ calls' = RemoveAt(calls, k)
             /\ done' = Some(Summary(call, l.outputs))
        ELSE /\ Commit(p)
             /\ calls' = [calls EXCEPT ![k] = [call EXCEPT !.i = l.i,
                                                !.outputs = l.outputs,
                                                !.awaiting = firstRequest(call.inputs[l.i])]]
             /\ done' = done

\* Records the server knows
Directory ==
    {Candidate(1, <<"a", "b">>, <<"a", "b">>, FALSE, None, None),
     Candidate(3, <<"b">>, <<"B", "a">>, TRUE, CreatedAt(0), Some(BioMedium))}

\* searchData.data of a search response: missing, empty, or records
SearchData ==
    {None, Some(<<>>),
     Some(<<Candidate(3, <<"b">>, <<"B", "a">>, TRUE, CreatedAt(0), Some(BioMedium))>>),
     Some(<<Candidate(1, <<"a", "b">>, <<"a", "b">>, FALSE, None, None),
            Candidate(3, <<"b">>, <<"B", "a">>, TRUE, CreatedAt(0), Some(BioMedium))>>)}

\* At most MaxCalls invocations await a response at a time
MaxCalls == 2

TypedValues == {<<"a", " ", "b">>, <<"a", "b">>, <<"@", "b">>, <<" ">>}

CsvFiles == {<<<<"a", " ", "b">>>>, <<<<" ">>, <<"b">>>>}

InitPage ==
    /\ query = <<>>
    /\ candidates = <<>>
    /\ hints = None
    /\ weights = None
    /\ limit = None
    /\ now = 1096
    /\ Idle
    /\ NoProbe
    /\ NoCallers
    /\ PageLoaded

\* onChange of the text field
SetInput(v) ==
    /\ input' = v
    /\ typed' = v
    /\ UNCHANGED <<result, loading, batchResults, isBatchMode, scoredCandidates,
                   originalDisplayNameQuery, calls, parsing, done>>
    /\ UNCHANGED <<rankerVars, callerVars>>

\* onSubmit of the form
SubmitForm ==
    /\ Len(calls) < MaxCalls
    /\ HandleSubmit("form", input, <<>>, Closure)
    /\ UNCHANGED <<parsing, typed>>
    /\ UNCHANGED <<rankerVars, callerVars>>

\* "Select & Verify" on a candidate of the SmartSuggest list, which is
\* rendered for a non-empty scoredCandidates outside batch mode
HandleSelectCandidate(username) ==
    /\ ~isBatchMode
    /\ Len(scoredCandidates) > 0
    /\ Len(calls) < MaxCalls
    /\ HandleSubmit("select", IF IsSome(done) THEN Val(done).typed ELSE <<>>,
                    <<username>>, Closure)
    /\ UNCHANGED <<parsing, typed>>
    /\ UNCHANGED <<rankerVars, callerVars>>

\* A file is chosen: Papa.parse reads it later and then calls the handleSubmit
\* of the render in which the file was chosen
HandleBatchUpload(lines) ==
    /\ parsing = None
    /\ parsing' = Some([closure |-> Closure, batchInputs |-> lines])
    /\ UNCHANGED <<input, result, loading, batchResults, isBatchMode, scoredCandidates,
                   originalDisplayNameQuery, calls, typed, done>>
    /\ UNCHANGED <<rankerVars, callerVars>>

\* The complete callback of Papa.parse
ParseComplete ==
    /\ IsSome(parsing)
    /\ Len(calls) < MaxCalls
    /\ HandleSubmit("batch", <<>>, Val(parsing).batchInputs, Val(parsing).closure)
    /\ parsing' = None
    /\ UNCHANGED typed
    /\ UNCHANGED <<rankerVars, callerVars>>

\* The request of invocation k fails: fetch rejects or the status is not ok,
\* and the catch block pushes an error output
RequestFails(k) ==
    /\ k \in 1..Len(calls)
    /\ Continue(k, Page, Append(calls[k].outputs,
                                Output(calls[k].inputs[calls[k].i], "Error", None, None)))
    /\ UNCHANGED <<parsing, typed>>
    /\ UNCHANGED <<rankerVars, callerVars>>

\* The exact lookup of invocation k answers with a user
LookupFinds(k, user) ==
    /\ k \in 1..Len(calls)
    /\ calls[k].awaiting = "lookup"
    /\ Continue(k, Page, Append(calls[k].outputs,
                                Output(calls[k].inputs[calls[k].i], "Verified", None,
                                       Some(user.id))))
    /\ UNCHANGED <<parsing, typed>>
    /\ UNCHANGED <<rankerVars, callerVars>>

\* The exact lookup answers with nothing or with an error object: the same
\* invocation goes on to the display-name search
LookupMisses(k) ==
    /\ k \in 1..Len(calls)
    /\ calls[k].awaiting = "lookup"
    /\ calls' = [calls EXCEPT ![k].awaiting = "search"]
    /\ UNCHANGED <<input, result, loading, batchResults, isBatchMode, scoredCandidates,
                   originalDisplayNameQuery, parsing, typed, done>>
    /\ UNCHANGED <<rankerVars, callerVars>>

\* The search of invocation k answers: lines 158-176 and 204-222
SearchAnswers(k, data) ==
    /\ k \in 1..Len(calls)
    /\ calls[k].awaiting = "search"
    /\ LET call == calls[k]
           singleInput == call.inputs[call.i]
           parsed == normalizeInput(singleInput)
       IN  \E found \in {getTopSuggestions(parsed.value,
                                            IF IsSome(data) THEN Val(data) ELSE <<>>,
                                            Some(10), None, None, now)} :
               LET p == IF ~call.closure.isBatchMode
                        THEN [Page EXCEPT !.scoredCandidates = found,
                                          !.originalDisplayNameQuery = parsed.value]
                        ELSE Page
               IN  Continue(k, p, Append(call.outputs,
                                         Output(singleInput,
                                                IF Len(found) > 0 THEN "Suggestions"
                                                ELSE "Not Found",
                                                Some(found), None)))
    /\ UNCHANGED <<parsing, typed>>
    /\ UNCHANGED <<rankerVars, callerVars>>

\* The server answers the request of invocation k, with one of the given
\* users or search results
Respond(k, users, results) ==
    \/ RequestFails(k)
    \/ \E user \in users : LookupFinds(k, user)
    \/ LookupMisses(k)
    \/ \E data \in results : SearchAnswers(k, data)

SelectAny ==
    \E i \in 1..Len(scoredCandidates) : HandleSelectCandidate(scoredCandidates[i].user.name)

\* Searches and selections, no file upload
NextFlow ==
    \/ \E v \in TypedValues : SetInput(v)
    \/ SubmitForm
    \/ SelectAny
    \/ \E k \in 1..MaxCalls : Respond(k, Directory, SearchData)

SpecFlow == InitPage /\ [][NextFlow]_vars

\* The page with file uploads, on one typed text and a smaller server
UploadTyped == {<<"a", " ", "b">>}

UploadDirectory ==
    {Candidate(3, <<"b">>, <<"B", "a">>, TRUE, CreatedAt(0), Some(BioMedium))}

UploadSearchData ==
    {None, Some(<<>>),
     Some(<<Candidate(3, <<"b">>, <<"B", "a">>, TRUE, CreatedAt(0), Some(BioMedium))>>)}

NextPage ==
    \/ \E v \in UploadTyped : SetInput(v)
    \/ SubmitForm
    \/ SelectAny
    \/ \E k \in 1..MaxCalls : Respond(k, UploadDirectory, UploadSearchData)
    \/ \E lines \in CsvFiles : HandleBatchUpload(lines)
    \/ ParseComplete

SpecPage == InitPage /\ [][NextPage]_vars

-----------------------------------------------------------------------------
(* Properties of the ranker *)

Elems(s) == {s[i] : i \in 1..Len(s)}

\* Every scored candidate a call has returned
Scored ==
    (IF IsSome(ranked) THEN Elems(Val(ranked)) ELSE {})
    \cup (IF IsSome(top) THEN Elems(Val(top)) ELSE {})

Users(out) == [i \in 1..Len(out) |-> out[i].user]

CountIn(s, x) == Cardinality({i \in 1..Len(s) : s[i] = x})

Take(s, n) == [i \in 1..Min2(n, Len(s)) |-> s[i]]

\* C1: the sequence rankCandidates returns is a permutation of the candidate
\* list: the same length, and every input candidate is the user of as many
\* output elements as it has occurrences in the input.
Thm_C1_Permutation ==
    IsSome(ranked) =>
        LET out == Val(ranked)
        IN  /\ Len(out) = Len(candidates)
            /\ \A i \in 1..Len(candidates) :
                  CountIn(Users(out), candidates[i]) = CountIn(candidates, candidates[i])

\* A list with a repeated record and a candidate of confidence under 50, which
\* the sort has reordered
Wit_C1_Reordered ==
    /\ IsSome(ranked)
    /\ Len(candidates) >= 3
    /\ Users(Val(ranked)) # candidates
    /\ \E i, j \in 1..Len(candidates) : i # j /\ candidates[i] = candidates[j]
    /\ \E i \in 1..Len(Val(ranked)) : Val(ranked)[i].confidence < 50

\* C2: in the sequence rankCandidates returns, each element's confidence is at
\* least that of the element after it.
Thm_C2_NonIncreasing ==
    IsSome(ranked) =>
        \A i \in 1..(Len(Val(ranked)) - 1) :
            Val(ranked)[i].confidence >= Val(ranked)[i + 1].confidence

\* The input had the lower-scoring candidate first, and the output ends with it
Wit_C2_Descending ==
    /\ IsSome(ranked)
    /\ Len(candidates) >= 2
    /\ Val(ranked)[1].user # candidates[1]
    /\ Val(ranked)[Len(candidates)].user = candidates[1]
    /\ Val(ranked)[1].confidence > Val(ranked)[Len(candidates)].confidence

\* C3: rankCandidates is stable: for every confidence value, the candidates
\* that received it appear in the output in their input order.
Thm_C3_Stable ==
    IsSome(ranked) =>
        LET out == Val(ranked)
            confOf(c) == (CHOOSE e \in Elems(out) : e.user = c).confidence
        IN  \A v \in {e.confidence : e \in Elems(out)} :
                Users(SelectSeq(out, LAMBDA e : e.confidence = v))
                = SelectSeq(candidates,
                            LAMBDA c : (\E e \in Elems(out) : e.user = c) /\ confOf(c) = v)

\* Two different records tie, on both sides of a higher-scoring record in the
\* input
Wit_C3_Tie ==
    /\ IsSome(ranked)
    /\ Len(candidates) = 3
    /\ candidates[1].id = 2 /\ candidates[2].id = 3 /\ candidates[3].id = 1
    /\ Users(Val(ranked)) = <<candidates[2], candidates[1], candidates[3]>>
    /\ Val(ranked)[2].confidence = Val(ranked)[3].confidence

\* C4: getTopSuggestions returns the first limit elements of rankCandidates
\* called with the same arguments, all of them when there are fewer, and the
\* limit is 5 when it is omitted.
Thm_C4_TopIsPrefix ==
    IsSome(top) =>
        Val(top) = Take(rankCandidates(query, candidates, hints, weights, now),
                        IF IsSome(limit) THEN Val(limit) ELSE 5)

\* A call without limit on more than five candidates, cut to five
Wit_C4_DefaultLimit ==
    /\ IsSome(top)
    /\ limit = None
    /\ Len(candidates) > 5
    /\ Len(Val(top)) = 5
    /\ Users(Val(top)) # Take(candidates, 5)

-----------------------------------------------------------------------------
(* Properties of the signals and of the confidence *)

InUnit(r) == RLeq(Zero, r) /\ RLeq(r, One)

\* The weight vector the claims name as the default
StatedDefault == Weights(Pct(40), Pct(25), Pct(15), Pct(10), Pct(10))

\* The weights a call works with, as the claims state them
StatedWeights == IF IsSome(weights) THEN Val(weights) ELSE StatedDefault

\* 100 * (sum of signal * weight) for the scored candidate e
HundredTimesSum(e, w) ==
    RMul(<<100, 1>>,
         RAdd(RMul(e.signals.nameSimilarity, w.nameSimilarity),
              RAdd(RMul(e.signals.accountSignals, w.accountSignals),
                   RAdd(RMul(e.signals.keywordHits, w.keywordHits),
                        RAdd(RMul(e.signals.groupOverlap, w.groupOverlap),
                             RMul(e.signals.profileCompleteness, w.profileCompleteness))))))

\* 100 * (sum of the weights)
HundredTimesWeights(w) ==
    RMul(<<100, 1>>,
         RAdd(w.nameSimilarity,
              RAdd(w.accountSignals,
                   RAdd(w.keywordHits, RAdd(w.groupOverlap, w.profileCompleteness)))))

\* k is r rounded to the nearest integer, halves upwards: k - 1/2 <= r < k + 1/2
RoundsTo(r, k) ==
    /\ (2 * k - 1) * r[2] <= 2 * r[1]
    /\ 2 * r[1] < (2 * k + 1) * r[2]

\* C5: each of the five signals of every scored candidate lies in [0, 1].
Thm_C5_SignalsInUnit ==
    \A e \in Scored :
        /\ InUnit(e.signals.nameSimilarity)
        /\ InUnit(e.signals.accountSignals)
        /\ InUnit(e.signals.keywordHits)
        /\ InUnit(e.signals.groupOverlap)
        /\ InUnit(e.signals.profileCompleteness)

\* A candidate that reaches the upper end of three signals, with every keyword
\* found in its bio, and takes its name similarity from the fuzzy fallback
Wit_C5_Extremes ==
    \E e \in Scored :
        /\ e.signals.accountSignals = One
        /\ e.signals.keywordHits = One
        /\ e.signals.profileCompleteness = One
        /\ Len(Val(Val(hints).keywords)) = 2
        /\ e.signals.nameSimilarity = Pct(75)

\* C6: confidence is round(100 * sum of signal * weight) of the candidate's own
\* signals, under the caller's weights when given and under
\* {0.40, 0.25, 0.15, 0.10, 0.10} otherwise, also through getTopSuggestions.
Thm_C6_Confidence ==
    \A e \in Scored : RoundsTo(HundredTimesSum(e, StatedWeights), e.confidence)

\* getTopSuggestions without weights, on a candidate whose weighted sum is no
\* whole number of hundredths, so that rounding acts
Wit_C6_RoundedDefault ==
    /\ IsSome(top)
    /\ weights = None
    /\ \E e \in Elems(Val(top)) :
          /\ HundredTimesSum(e, StatedDefault)[2] # 1
          /\ e.confidence > 0

\* The statement of C7 as claimed: confidence is an integer in
\* [0, 100 * sum of the weights].
Cex_C7_WithinWeightSum ==
    \A e \in Scored :
        /\ e.confidence \in Nat
        /\ RLeq(<<e.confidence, 1>>, HundredTimesWeights(StatedWeights))

\* C7 (amended): confidence is an integer in [0, round(100 * sum of the
\* weights)], so it exceeds 100 * sum of the weights by at most 1/2; with the
\* default weights it is an integer in [0, 100].
Thm_C7_WithinRoundedWeightSum ==
    \A e \in Scored :
        /\ e.confidence \in Nat
        /\ RLeq(<<e.confidence, 1>>,
                RAdd(HundredTimesWeights(StatedWeights), <<1, 2>>))
        /\ weights = None => e.confidence <= 100

\* Weights summing to 0.005 and a name similarity of 1: confidence 1 > 0.5
Wit_C7_RoundedAboveSum ==
    \E e \in Scored :
        /\ weights = Some(WeightsTiny)
        /\ e.signals.nameSimilarity = One
        /\ e.confidence = 1

-----------------------------------------------------------------------------
(* Properties of the name similarity *)

\* A string after trimming and lower-casing
Folded(str) == trim(toLowerCase(str))

\* The six tiers in their order, as conditions on the folded strings; Tier is
\* the first that matches, 7 when none does
Tier(q, candidate) ==
    LET nq == Folded(q)
        nd == Folded(candidate.displayName)
        nu == Folded(candidate.name)
    IN  IF nd = nq THEN 1
        ELSE IF nu = nq THEN 2
        ELSE IF startsWith(nd, nq) THEN 3
        ELSE IF startsWith(nu, nq) THEN 4
        ELSE IF includes(nd, nq) THEN 5
        ELSE IF includes(nu, nq) THEN 6
        ELSE 7

TierValue == <<One, Pct(95), Pct(85), Pct(80), Pct(70), Pct(65)>>

\* The smaller edit distance from the folded query to the two folded names
MinDistance(q, candidate) ==
    Min2(levenshtein(Folded(q), Folded(candidate.displayName)),
         levenshtein(Folded(q), Folded(candidate.name)))

\* C8: when displayName equals the query after trimming and lower-casing both,
\* the name similarity is exactly 1, whatever the name is.
Thm_C8_ExactDisplay ==
    \A e \in Scored :
        Folded(e.user.displayName) = Folded(query) => e.signals.nameSimilarity = One

\* displayName and query differ as typed and meet once folded, while the name
\* is an exact match too
Wit_C8_FoldedMatch ==
    \E e \in Scored :
        /\ e.user.displayName # query
        /\ Len(e.user.displayName) # Len(query)
        /\ Folded(e.user.displayName) = Folded(query)
        /\ Folded(e.user.name) = Folded(query)
        /\ Len(Folded(query)) > 0
        /\ e.signals.nameSimilarity = One

\* C9: the name similarity is the value of the first tier that matches, in the
\* order exact display (1.0), exact name (0.95), display prefix (0.85), name
\* prefix (0.80), display substring (0.70), name substring (0.65).
Thm_C9_FirstTierWins ==
    \A e \in Scored :
        Tier(query, e.user) <= 6 =>
            e.signals.nameSimilarity = TierValue[Tier(query, e.user)]

\* The name contains the query away from its start and the display name does
\* not contain it: the sixth tier decides
Wit_C9_LastTier ==
    \E e \in Scored :
        /\ Tier(query, e.user) = 6
        /\ Len(Folded(query)) > 0
        /\ e.signals.nameSimilarity = Pct(65)

\* The statement of C10 as claimed: an edit distance of at most 2 to either
\* folded name gives a name similarity of at least 0.75.
Cex_C10_CloseMeansHigh ==
    \A e \in Scored :
        MinDistance(query, e.user) <= 2 => RLeq(Pct(75), e.signals.nameSimilarity)

\* C10 (amended): an edit distance of at most 2 to either folded name gives a
\* name similarity of at least 0.75, unless a substring tier decides (no exact
\* or prefix tier matches and a folded name contains the folded query), where
\* it is 0.70 or 0.65.
Thm_C10_CloseMeansHighUnlessSubstring ==
    \A e \in Scored :
        MinDistance(query, e.user) <= 2 =>
            IF Tier(query, e.user) \in {5, 6}
            THEN e.signals.nameSimilarity \in {Pct(70), Pct(65)}
            ELSE RLeq(Pct(75), e.signals.nameSimilarity)

\* No tier matches, the distance is 2 and Jaro-Winkler is under 0.75 for both
\* names: the floor of the fallback gives 0.75
Wit_C10_Floor ==
    \E e \in Scored :
        /\ Tier(query, e.user) = 7
        /\ MinDistance(query, e.user) = 2
        /\ ~RLeq(Pct(75), jaroWinkler(Folded(query), Folded(e.user.displayName)))
        /\ ~RLeq(Pct(75), jaroWinkler(Folded(query), Folded(e.user.name)))
        /\ e.signals.nameSimilarity = Pct(75)

\* C11: jaroWinkler of a non-empty string against itself, strings of length 1
\* included, is 1.0.
Cex_C11_SelfSimilarityOne ==
    (IsSome(jwResult) /\ jwArgs[1] = jwArgs[2] /\ Len(jwArgs[1]) > 0)
        => Val(jwResult) = One

\* C12: two calls of rankCandidates with the same query, candidates, hints and
\* weights return the same output, whenever each call is made.
Cex_C12_SameArgumentsSameOutput ==
    IsSome(earlier) => ranked = earlier

\* The account signal as stated: badge 0.4; age part 0.3 from 3 years, 0.2 from
\* 1 year, 0.1 from 90 days, boundaries included, 0.15 without a creation
\* date; bio part 0.3 over 10 characters, 0.15 up to 10, 0 without a bio
StatedAgePart(candidate, clock) ==
    IF ~IsSome(candidate.created) THEN Pct(15)
    ELSE LET age == clock - Val(candidate.created).day
         IN  IF age >= 365 * 3 THEN Pct(30)
             ELSE IF age >= 365 THEN Pct(20)
             ELSE IF age >= 90 THEN Pct(10)
             ELSE Zero

StatedAccountSignal(candidate, clock) ==
    LET v == IF candidate.hasVerifiedBadge THEN Pct(40) ELSE Zero
        a == StatedAgePart(candidate, clock)
        b == IF ~IsSome(candidate.description) THEN Zero
             ELSE IF Len(Val(candidate.description)) > 10 THEN Pct(30)
             ELSE Pct(15)
    IN  RMin(One, RAdd(RAdd(v, a), b))

\* A creation date that is absent or a valid date, a bio that is absent or
\* not empty
PlainAccount(candidate) ==
    /\ (IsSome(candidate.created) => Val(candidate.created).kind = "date")
    /\ candidate.description # Some(<<>>)

\* C13: the account signal is min(1.0, v + a + b) with the stated parts, the
\* age boundaries of 90 days, 1 year and 3 years being inclusive.
Cex_C13_AccountSignalInclusive ==
    \A e \in Scored :
        PlainAccount(e.user) =>
            e.signals.accountSignals = StatedAccountSignal(e.user, now)

\* Keywords were supplied: hints carries a keywords array that is not empty
KeywordsSupplied(h) ==
    IsSome(h) /\ IsSome(Val(h).keywords) /\ Len(Val(Val(h).keywords)) > 0

\* The candidate has a bio: the field is present and not empty
HasBio(candidate) ==
    IsSome(candidate.description) /\ Len(Val(candidate.description)) > 0

\* Number of the keywords of h that occur in the bio, letter case ignored
StatedHits(candidate, h) ==
    LET keywords == Val(Val(h).keywords)
    IN  Cardinality({i \in 1..Len(keywords) :
            includes(toLowerCase(Val(candidate.description)), toLowerCase(keywords[i]))})

StatedKeywordSignal(candidate, h) ==
    IF ~KeywordsSupplied(h) THEN Pct(50)
    ELSE IF ~HasBio(candidate) THEN Zero
    ELSE RMin(One, Rat(StatedHits(candidate, h), Len(Val(Val(h).keywords))))

StatedBioPart(candidate) ==
    IF ~HasBio(candidate) THEN Zero
    ELSE IF Len(Val(candidate.description)) > 50 THEN Pct(40)
    ELSE IF Len(Val(candidate.description)) > 10 THEN Pct(30)
    ELSE Pct(10)

StatedProfile(candidate, differs) ==
    RMin(One, RAdd(RAdd(IF differs THEN Pct(30) ELSE Zero, StatedBioPart(candidate)),
                   IF candidate.hasVerifiedBadge THEN Pct(30) ELSE Zero))

TagOrder ==
    <<"Exact name match", "Strong name similarity", "Moderate name similarity",
      "Verified badge", "Established account", "Complete profile", "Keyword matches">>

TagRank(tag) == CHOOSE i \in 1..Len(TagOrder) : TagOrder[i] = tag

\* C16: the breakdown lists its tags in the order name tag, "Verified badge",
\* "Established account", "Complete profile", "Keyword matches", no tag twice;
\* the name tag is "Exact name match" from 0.9, "Strong name similarity" from
\* 0.8, "Moderate name similarity" from 0.6, none below; "Verified badge" iff
\* verified; "Established account" iff accountSignals >= 0.7; "Complete
\* profile" iff profileCompleteness >= 0.7.
Thm_C16_BreakdownOrder ==
    \A e \in Scored :
        LET b == e.breakdown
            tags == Elems(b)
            ns == e.signals.nameSimilarity
        IN  /\ tags \subseteq Elems(TagOrder)
            /\ \A i, j \in 1..Len(b) : i < j => TagRank(b[i]) < TagRank(b[j])
            /\ "Exact name match" \in tags <=> RLeq(Pct(90), ns)
            /\ "Strong name similarity" \in tags
                  <=> (~RLeq(Pct(90), ns) /\ RLeq(Pct(80), ns))
            /\ "Moderate name similarity" \in tags
                  <=> (~RLeq(Pct(80), ns) /\ RLeq(Pct(60), ns))
            /\ "Verified badge" \in tags <=> e.user.hasVerifiedBadge
            /\ "Established account" \in tags <=> RLeq(Pct(70), e.signals.accountSignals)
            /\ "Complete profile" \in tags <=> RLeq(Pct(70), e.signals.profileCompleteness)

\* A breakdown with a name tag and all four other tags
Wit_C16_AllFive ==
    \E e \in Scored :
        e.breakdown = <<"Exact name match", "Verified badge", "Established account",
                        "Complete profile", "Keyword matches">>

\* C17: "Keyword matches" is in the breakdown iff the keyword signal is >= 0.5
\* and hints.keywords was supplied and is not empty; never for absent or empty
\* keywords.
Cex_C17_KeywordTag ==
    \A e \in Scored :
        "Keyword matches" \in Elems(e.breakdown)
            <=> (RLeq(Pct(50), e.signals.keywordHits) /\ KeywordsSupplied(hints))

\* C18: a call on a candidate without creation date or bio, or without hints
\* or hint fields, completes with one scored entry per candidate, and the
\* signals take their defaults: age part 0.15 without a creation date, keyword
\* signal 0.5 without keywords and 0 with keywords but no bio.
Thm_C18_Defaults ==
    /\ IsSome(ranked) => Len(Val(ranked)) = Len(candidates)
    /\ IsSome(top) => Len(Val(top)) = Min2(Len(candidates), 5)
    /\ \A e \in Scored :
          /\ ((~IsSome(e.user.created) \/ e.user.created = CreatedEmpty) /\ ~HasBio(e.user))
                => e.signals.accountSignals
                     = RAdd(IF e.user.hasVerifiedBadge THEN Pct(40) ELSE Zero, Pct(15))
          /\ ~KeywordsSupplied(hints) => e.signals.keywordHits = Pct(50)
          /\ (KeywordsSupplied(hints) /\ ~HasBio(e.user)) => e.signals.keywordHits = Zero

\* No creation date, no bio, keywords supplied: 0.15 and 0
Wit_C18_NothingOptional ==
    \E e \in Scored :
        /\ ~IsSome(e.user.created)
        /\ ~IsSome(e.user.description)
        /\ ~e.user.hasVerifiedBadge
        /\ KeywordsSupplied(hints)
        /\ e.signals.accountSignals = Pct(15)
        /\ e.signals.keywordHits = Zero

\* C19: on an empty candidate list rankCandidates and getTopSuggestions return
\* the empty sequence, whatever the query, hints, weights and limit.
Thm_C19_EmptyInEmptyOut ==
    candidates = <<>> =>
        /\ IsSome(ranked) => Val(ranked) = <<>>
        /\ IsSome(top) => Val(top) = <<>>

\* getTopSuggestions has answered an empty list with a positive limit, hints
\* and weights given
Wit_C19_EmptyTop ==
    /\ candidates = <<>>
    /\ IsSome(top)
    /\ Val(top) = <<>>
    /\ IsSome(limit) /\ Val(limit) > 0
    /\ IsSome(weights)
    /\ KeywordsSupplied(hints)

\* C20: the group-overlap signal is 0.5 for every candidate, with group ids
\* absent, empty or supplied.
Thm_C20_GroupOverlapNeutral ==
    \A e \in Scored : e.signals.groupOverlap = Pct(50)

\* Group ids were supplied
Wit_C20_GroupIdsGiven ==
    \E e \in Scored :
        /\ IsSome(hints)
        /\ IsSome(Val(hints).groupIds)
        /\ Len(Val(Val(hints).groupIds)) > 0
        /\ e.signals.groupOverlap = Pct(50)

\* The better of the two Jaro-Winkler similarities of the normalized query
MaxJW(q, candidate) ==
    RMax(jaroWinkler(Folded(q), Folded(candidate.displayName)),
         jaroWinkler(Folded(q), Folded(candidate.name)))

Marks ==
    LET longer == IF Len(jwArgs[1]) > Len(jwArgs[2]) THEN jwArgs[1] ELSE jwArgs[2]
        shorter == IF Len(jwArgs[1]) > Len(jwArgs[2]) THEN jwArgs[2] ELSE jwArgs[1]
        m == jwMatch(shorter, longer, (Len(longer) \div 2) - 1, 1, {}, {})
    IN  [shorter |-> shorter, longer |-> longer, sm |-> m[1], lm |-> m[2]]

Walk == jwWalk(Marks.shorter, Marks.longer, Marks.sm, Marks.lm, 1, 1, 0)

\* C27: as many positions are marked in longer as in shorter, so the cursor k
\* of the transposition walk stays inside longer and the call returns.
Thm_C27_WalkInsideLonger ==
    /\ Cardinality(Marks.sm) = Cardinality(Marks.lm)
    /\ ~Walk[2]

\* A call that has returned after a walk over four matches that counted
\* transpositions
Wit_C27_Transpositions ==
    /\ IsSome(jwResult)
    /\ Cardinality(Marks.sm) = 4
    /\ Walk[1] > 0
    /\ ~Walk[2]

\* C28 as stated: "Exact name match" is in the breakdown only when the
\* normalized displayName or primaryName equals the normalized query.
Cex_C28_ExactTagMeansEqual ==
    \A e \in Scored :
        "Exact name match" \in Elems(e.breakdown) => Tier(query, e.user) \in {1, 2}

\* C28 amended: "Exact name match" is in the breakdown only when a normalized
\* name equals the normalized query or when no tier matches and the fallback
\* similarity is 0.9 or more.
Thm_C28_ExactTagMeansEqualOrClose ==
    \A e \in Scored :
        "Exact name match" \in Elems(e.breakdown) =>
            \/ Tier(query, e.user) \in {1, 2}
            \/ /\ Tier(query, e.user) = 7
               /\ RLeq(Pct(90), MaxJW(query, e.user))

\* The tag on a candidate whose names both differ from the query
Wit_C28_ExactTagOnFallback ==
    \E e \in Scored :
        /\ Tier(query, e.user) = 7
        /\ Folded(e.user.displayName) # Folded(query)
        /\ Folded(e.user.name) # Folded(query)
        /\ e.breakdown[1] = "Exact name match"

\* C29: for a query that is empty or only whitespace the name similarity is
\* 1.0 when the normalized displayName is empty, else 0.95 when the normalized
\* primaryName is empty, else 0.85; the name tag is "Exact name match" or
\* "Strong name similarity".
Thm_C29_EmptyQuery ==
    Folded(query) = <<>> =>
        \A e \in Scored :
            /\ e.signals.nameSimilarity =
                  IF Folded(e.user.displayName) = <<>> THEN One
                  ELSE IF Folded(e.user.name) = <<>> THEN Pct(95)
                  ELSE Pct(85)
            /\ Tier(query, e.user) \in {1, 2, 3}
            /\ Len(e.breakdown) > 0
            /\ e.breakdown[1] \in {"Exact name match", "Strong name similarity"}

\* A whitespace-only query against two names that are not empty
Wit_C29_BlankQuery ==
    \E e \in Scored :
        /\ Len(query) > 0
        /\ Folded(query) = <<>>
        /\ Folded(e.user.displayName) # <<>>
        /\ Folded(e.user.name) # <<>>
        /\ e.signals.nameSimilarity = Pct(85)
        /\ e.breakdown[1] = "Strong name similarity"

\* C21: a call leaves its arguments as they were (the candidate list with its
\* order, length and records, the query, hints, weights and limit), and the
\* user of every output element is a record of the list as the caller gave it.
Thm_C21_ArgumentsUntouched ==
    /\ [][/\ candidates' = candidates
          /\ query' = query
          /\ hints' = hints
          /\ weights' = weights
          /\ limit' = limit]_vars
    /\ [](\A e \in Scored : e.user \in Elems(candidates))

\* A call whose output is ordered differently from the list it was given and
\* holds a record with a display name that normalization changes
Wit_C21_ReorderedOutput ==
    /\ IsSome(ranked)
    /\ Len(candidates) > 1
    /\ Users(Val(ranked)) # candidates
    /\ \E e \in Scored : normalizeString(e.user.displayName) # e.user.displayName

\* C22: whatever the order of the calls of callers with different weight
\* overrides or none, each result is the one the call gives when run alone,
\* and DEFAULT_WEIGHTS keeps its value.
Thm_C22_CallsIndependent ==
    /\ defaultWeights = DEFAULT_WEIGHTS
    /\ \A c \in DOMAIN callerResult :
          IsSome(callerResult[c]) =>
              Val(callerResult[c])
                  = rankCandidates(query, candidates, hints, callerWeights[c], now)

\* All three callers have called: one without weights, two with different
\* overrides, and their results differ
Wit_C22_ThreeCallers ==
    /\ DOMAIN callerResult = Callers
    /\ \A c \in Callers : IsSome(callerResult[c])
    /\ callerWeights["c1"] = None
    /\ callerWeights["c2"] = Some(WeightsHeavy)
    /\ callerWeights["c3"] = Some(WeightsTiny)
    /\ callerResult["c1"] # callerResult["c2"]
    /\ callerResult["c1"] # callerResult["c3"]

\* The last invocation that completed, when no other is in flight
Settled == calls = <<>> /\ IsSome(done)

\* An output that carries no candidate
NoSuggestions(out) ==
    \/ ~IsSome(out.suggestions)
    \/ Len(Val(out.suggestions)) = 0

\* C23: once a fresh single search whose lookup gave at least one ranked
\* candidate has completed, scoredCandidates is non-empty and isBatchMode is
\* false, whatever searches and selections came before.
Cex_C23_SuggestAgain ==
    (/\ Settled
     /\ Val(done).fresh
     /\ Len(Val(done).outputs) = 1
     /\ Val(done).outputs[1].status = "Suggestions")
        => (Len(scoredCandidates) > 0 /\ ~isBatchMode)

\* C24: once a handleSubmit has completed, the result is the Not Found box
\* only if that invocation's suggestion list was empty, and then
\* scoredCandidates is empty.
Cex_C24_NotFoundMeansNone ==
    (Settled /\ result = "Not Found")
        => (/\ Len(Val(done).outputs) = 1
            /\ NoSuggestions(Val(done).outputs[1])
            /\ scoredCandidates = <<>>)

\* C25: once the handleSubmit of a selection has completed with the selected
\* user verified, and the user has typed nothing since the display-name query
\* that was searched, the input field holds that query.
Cex_C25_InputPersists ==
    (/\ Settled
     /\ Val(done).kind = "select"
     /\ Val(done).outputs[1].status = "Verified"
     /\ Val(done).typed = typed
     /\ normalizeInput(typed).type = "displayName")
        => input = typed

\* C30: at most one invocation of handleSubmit is past the loading guard.
Cex_C30_OneInvocation == Len(calls) <= 1

====
